---- MODULE Spec2Model ----
(***************************************************************************)
(* A model of serve.py: the control flow of main(), which constructs a     *)
(* livereload Server, registers four watch patterns and then calls         *)
(* serve(port=5173, root='.').                                             *)
(*                                                                         *)
(* The Server class is imported from the third-party livereload package    *)
(* (serve.py line 1); its code is not part of this repository.  Each call  *)
(* into it is therefore an opaque call: the model records the call and its *)
(* arguments, and lets the call end in every way a Python call can end     *)
(* (it returns, it raises, or - for serve - it keeps running).  What       *)
(* happens inside the library (file polling, notification delivery, HTTP   *)
(* responses, script injection) is not modelled.                           *)
(***************************************************************************)
EXTENDS Naturals, Sequences, FiniteSets

\* Bounds of the model.
MaxMods == 2
MaxClients == 2

\* serve.py line 14: port=5173
Port == 5173

\* serve.py line 14: root='.'
Root == "."

\* A mutation of main(): the stylesheet pattern is registered after the
\* script pattern (two lines swapped).
MainSwapped ==
    << [op |-> "Server"],
       [op |-> "watch", arg |-> "index.html"],
       [op |-> "watch", arg |-> "batch.html"],
       [op |-> "watch", arg |-> "src/*.js"],
       [op |-> "watch", arg |-> "styles.css"],
       [op |-> "serve", port |-> Port, root |-> Root] >>

\* The statements of main(), in program order (serve.py lines 5-14).
Main ==
    << [op |-> "Server"],
       [op |-> "watch", arg |-> "index.html"],
       [op |-> "watch", arg |-> "batch.html"],
       [op |-> "watch", arg |-> "styles.css"],
       [op |-> "watch", arg |-> "src/*.js"],
       [op |-> "serve", port |-> Port, root |-> Root] >>

\* The environment: files of the working directory that an editor may
\* modify, and the browser tabs that may connect.
Files == {"styles.css", "src/app.js", "README.md"}
Clients == 1..MaxClients

NoConfig == [port |-> 0, root |-> ""]

VARIABLES
    pc,          \* index in Main of the statement main() executes next
    proc,        \* "running" | "exited"
    exit,        \* "none" | "returned" | "raised" | "killed"
    server,      \* TRUE once Server() has been constructed
    state,       \* lifecycle of the server: "Stopped" | "Serving"
    watchSet,    \* the patterns registered by watch(), in call order
    config,      \* the ServerConfig passed to serve()
    serveCalls,  \* number of serve() calls made
    mods,        \* environment: number of modifications of each file
    clients      \* environment: the open client connections

vars == << pc, proc, exit, server, state, watchSet, config, serveCalls,
           mods, clients >>

progVars == << pc, proc, exit, server, state, watchSet, config, serveCalls >>

\* The process starts at the first statement of main() (lines 17-18, 4).
Init ==
    /\ pc = 1
    /\ proc = "running"
    /\ exit = "none"
    /\ server = FALSE
    /\ state = "Stopped"
    /\ watchSet = << >>
    /\ config = NoConfig
    /\ serveCalls = 0
    /\ mods = [f \in Files |-> 0]
    /\ clients = {}

\* main() is about to execute a statement (it is not inside serve()).
AtStatement ==
    /\ proc = "running"
    /\ state = "Stopped"
    /\ pc \in 1..Len(Main)

\* line 5: server = Server()
NewServer ==
    /\ AtStatement
    /\ Main[pc].op = "Server"
    /\ server' = TRUE
    /\ pc' = pc + 1
    /\ UNCHANGED << proc, exit, state, watchSet, config, serveCalls,
                    mods, clients >>

\* lines 7-10: server.watch(pattern)
Watch ==
    /\ AtStatement
    /\ Main[pc].op = "watch"
    /\ server
    /\ watchSet' = Append(watchSet, Main[pc].arg)
    /\ pc' = pc + 1
    /\ UNCHANGED << proc, exit, server, state, config, serveCalls,
                    mods, clients >>

\* line 14: server.serve(port=5173, root='.') is called and starts serving;
\* control stays inside the call.
Serve ==
    /\ AtStatement
    /\ Main[pc].op = "serve"
    /\ server
    /\ config' = [port |-> Main[pc].port, root |-> Main[pc].root]
    /\ serveCalls' = serveCalls + 1
    /\ state' = "Serving"
    /\ UNCHANGED << pc, proc, exit, server, watchSet, mods, clients >>

\* lines 5-14: a call raises during startup.  main() has no try/except, so
\* the exception ends the process; for serve() the call and its arguments
\* were made all the same.
Raise ==
    /\ AtStatement
    /\ proc' = "exited"
    /\ exit' = "raised"
    /\ IF Main[pc].op = "serve"
          THEN /\ config' = [port |-> Main[pc].port, root |-> Main[pc].root]
               /\ serveCalls' = serveCalls + 1
          ELSE UNCHANGED << config, serveCalls >>
    /\ UNCHANGED << pc, server, state, watchSet, mods, clients >>

\* line 14: serve() returns to main(); no statement follows it, so main()
\* returns and the process exits (lines 14, 18).
ServeReturns ==
    /\ proc = "running"
    /\ state = "Serving"
    /\ pc' = pc + 1
    /\ proc' = "exited"
    /\ exit' = "returned"
    /\ state' = "Stopped"
    /\ clients' = {}
    /\ UNCHANGED << server, watchSet, config, serveCalls, mods >>

\* line 14: serve() raises while serving; the exception is not caught.
ServeRaises ==
    /\ proc = "running"
    /\ state = "Serving"
    /\ proc' = "exited"
    /\ exit' = "raised"
    /\ state' = "Stopped"
    /\ clients' = {}
    /\ UNCHANGED << pc, server, watchSet, config, serveCalls, mods >>

\* The operator terminates the process (a signal).
Kill ==
    /\ proc = "running"
    /\ proc' = "exited"
    /\ exit' = "killed"
    /\ state' = "Stopped"
    /\ clients' = {}
    /\ UNCHANGED << pc, server, watchSet, config, serveCalls, mods >>

\* An editor modifies a file of the working directory.
ModifyFile(f) ==
    /\ mods[f] < MaxMods
    /\ mods' = [mods EXCEPT ![f] = @ + 1]
    /\ UNCHANGED << progVars, clients >>

\* A browser tab opens a connection to the serving server.
ClientConnect(c) ==
    /\ proc = "running"
    /\ state = "Serving"
    /\ c \notin clients
    /\ clients' = clients \cup {c}
    /\ UNCHANGED << progVars, mods >>

\* A browser tab closes or its connection drops.
ClientDisconnect(c) ==
    /\ c \in clients
    /\ clients' = clients \ {c}
    /\ UNCHANGED << progVars, mods >>

Next ==
    \/ NewServer
    \/ Watch
    \/ Serve
    \/ Raise
    \/ ServeReturns
    \/ ServeRaises
    \/ Kill
    \/ \E f \in Files : ModifyFile(f)
    \/ \E c \in Clients : ClientConnect(c)
    \/ \E c \in Clients : ClientDisconnect(c)

Spec == Init /\ [][Next]_vars

TypeOK ==
    /\ pc \in 1..(Len(Main) + 1)
    /\ proc \in {"running", "exited"}
    /\ exit \in {"none", "returned", "raised", "killed"}
    /\ server \in BOOLEAN
    /\ state \in {"Stopped", "Serving"}
    /\ serveCalls \in 0..1
    /\ mods \in [Files -> 0..MaxMods]
    /\ clients \subseteq Clients

----------------------------------------------------------------------------
\* The four patterns of the claim, in the claimed order.
FourPatterns == << "index.html", "batch.html", "styles.css", "src/*.js" >>

\* Once serve() has been called (whether it is serving, has failed or has
\* ended), it was called once, with all four patterns registered in order
\* and with port 5173 and root '.'.
C8_AtServe ==
    /\ serveCalls <= 1
    /\ serveCalls = 1 =>
          /\ watchSet = FourPatterns
          /\ config = [port |-> 5173, root |-> "."]
    /\ state = "Serving" => serveCalls = 1

\* Every change of the WatchSet is a watch() call of main() made while the
\* server is Stopped and before any serve() call, and it appends; no step
\* taken while Serving changes the WatchSet or the ServerConfig.
C8_Step ==
    /\ watchSet' # watchSet =>
          /\ state = "Stopped" /\ state' = "Stopped"
          /\ serveCalls = 0 /\ serveCalls' = 0
          /\ Len(watchSet') = Len(watchSet) + 1
          /\ SubSeq(watchSet', 1, Len(watchSet)) = watchSet
    /\ state = "Serving" => watchSet' = watchSet /\ config' = config
    /\ serveCalls = 1 => serveCalls' = 1 /\ config' = config

\* C8: the WatchSet is changed only by watch() calls made while the server
\* is Stopped; main registers exactly index.html, batch.html, styles.css,
\* src/*.js, in that order, all before the single serve() call; and while
\* the server is Serving the WatchSet and the ServerConfig (port 5173,
\* root '.') keep the values they had when serve() was called.
C8_WatchSetFrozen == [](C8_AtServe) /\ [][C8_Step]_vars

\* Witness of C8: the server is serving, a client is connected and a watched
\* file has been modified at runtime, with the configuration in place.
C8_Witness ==
    /\ state = "Serving"
    /\ proc = "running"
    /\ serveCalls = 1
    /\ Len(watchSet) = 4
    /\ clients # {}
    /\ mods["styles.css"] > 0
    /\ mods["src/app.js"] > 0

====
